---- MODULE Spec2Model ----
(***************************************************************************)
(* Model of the real-time messaging layer of the job board: the            *)
(* WebSocketManager (server/websocket.ts), the message table it writes     *)
(* through DatabaseStorage.createMessage, and the sockets it talks to.     *)
(*                                                                         *)
(* Node runs every callback to completion on one thread, so each action    *)
(* below is one callback (or the continuation of one after an await).      *)
(***************************************************************************)
EXTENDS Integers, Sequences, FiniteSets, TLC

(***************************************************************************)
(* Bounds of the model.                                                    *)
(***************************************************************************)
MaxSockets == 3
MaxFrames == 2
NumUsers == 2
\* how many upgrades with a bad token are explored
MaxRejected == 1
\* how many upgrades and inbound frames one run has in total
MaxEvents == 4
MaxPosts == 1
MaxFetches == 1
MaxCalls == 3

Sockets == 1..MaxSockets
Users == 1..NumUsers
\* an id that is in no row of the users table
NoSuchUser == NumUsers + 1

VARIABLES
    readyState,   \* socket -> "NEW" (no upgrade yet), "OPEN", "CLOSING", "CLOSED"
    token,        \* socket -> the token of its upgrade request
    handlers,     \* socket -> TRUE when 'message' and 'close' handlers are attached
    closeCode,    \* socket -> status code the server closed it with (0: none)
    clients,      \* WebSocketManager.clients: sequence of [userId, socket]
    outbox,       \* socket -> sequence of events given to socket.send
    frames,       \* inbound frames in arrival order, with their handler's position
    messages,     \* the messages table, in insertion order
    crashed,      \* TRUE once an uncaught exception has ended the process
    posts,       \* POST /api/invitations requests and the notification each started
    fetches,      \* GET /api/messages/:userId requests, with their handler's position
    moduleSocket, \* client module: the variable socket (0: null, else the WebSocket's id)
    wsState,      \* client module: WebSocket id -> "NONE" (not created), "CONNECTING", ...
    calls,        \* client module: connectWebSocket call -> position
    closedBefore  \* client module: the calls made before a closeWebSocket() returned

vars == <<readyState, token, handlers, closeCode, clients, outbox, frames, messages,
          crashed, posts, fetches, moduleSocket, wsState, calls, closedBefore>>

\* the state of the server process, and the state of the client module of one page
serverVars == <<readyState, token, handlers, closeCode, clients, outbox, frames,
                messages, crashed, posts, fetches>>
clientVars == <<moduleSocket, wsState, calls, closedBefore>>

\* the connectWebSocket calls of the page; the WebSocket a call creates has the call's id
Calls == 1..MaxCalls

(***************************************************************************)
(* Tokens and jwt.verify.                                                  *)
(***************************************************************************)
NoToken == [kind |-> "none", userId |-> 0]

\* what the token query parameter of an upgrade request can be; an expired
\* or tampered token still names the user it was (or pretends to be) minted for
Tokens ==
    {[kind |-> "absent", userId |-> 0], [kind |-> "malformed", userId |-> 0]}
    \cup [kind : {"expired", "tampered"}, userId : {1}]
    \cup [kind : {"valid"}, userId : Users]

\* a variant that does not look at the expiry of the token
jwtVerifyIgnoreExpiration(t) ==
    IF t.kind \in {"valid", "expired"} THEN [throws |-> FALSE, userId |-> t.userId]
    ELSE [throws |-> TRUE, userId |-> 0]

\* jwt.verify(token, JWT_SECRET): the decoded payload, or throws
jwtVerify(t) ==
    IF t.kind = "valid" THEN [throws |-> FALSE, userId |-> t.userId]
    ELSE [throws |-> TRUE, userId |-> 0]

\* the userId captured by the closures of socket s (0 when it has none)
userIdOf(s) == jwtVerify(token[s]).userId

(***************************************************************************)
(* Token Issuance: createToken signs every token with expiresIn '7d'; the  *)
(* login and registration routes and GET /api/auth/ws-token all call it.   *)
(* Validity periods are in seconds.                                        *)
(***************************************************************************)
SevenDays == 604800

createToken(payload) == [userId |-> payload.userId, expiresIn |-> SevenDays]

\* the token POST /api/auth/login and /api/auth/register set as cookie
loginToken(u) == createToken([userId |-> u])

\* the token GET /api/auth/ws-token answers with
wsToken(u) == createToken([userId |-> u])

(***************************************************************************)
(* Events pushed to sockets.  frame is a ghost tag naming the inbound      *)
(* frame whose handler produced the event.                                 *)
(***************************************************************************)
NullMessage == [id |-> 0, senderId |-> 0, receiverId |-> 0, content |-> "", read |-> FALSE]

MessageEvent(f, m) ==
    [type |-> "message", frame |-> f, message |-> m, messageId |-> 0]

MessageSentEvent(f, id) ==
    [type |-> "message_sent", frame |-> f, message |-> NullMessage, messageId |-> id]

ErrorEvent(f) ==
    [type |-> "error", frame |-> f, message |-> NullMessage, messageId |-> 0]

\* a variant without the readyState test
RECURSIVE forEachSendAnyState(_, _, _)
forEachSendAnyState(userClients, data, ob) ==
    IF userClients = <<>> THEN [outbox |-> ob, sent |-> FALSE]
    ELSE LET client == Head(userClients)
             rest == forEachSendAnyState(Tail(userClients), data,
                        [ob EXCEPT ![client.socket] = Append(@, data)])
         IN  [outbox |-> rest.outbox, sent |-> TRUE]

(***************************************************************************)
(* WebSocketManager.sendToUser                                             *)
(***************************************************************************)
\* a variant whose result counts every entry of the user, open or not
RECURSIVE forEachSendCountsEntries(_, _, _)
forEachSendCountsEntries(userClients, data, ob) ==
    IF userClients = <<>> THEN [outbox |-> ob, sent |-> FALSE]
    ELSE LET client == Head(userClients)
             isOpen == readyState[client.socket] = "OPEN"
             ob1 == IF isOpen
                    THEN [ob EXCEPT ![client.socket] = Append(@, data)]
                    ELSE ob
             rest == forEachSendCountsEntries(Tail(userClients), data, ob1)
         IN  [outbox |-> rest.outbox, sent |-> TRUE]

\* a variant in which a send to a socket that is not OPEN throws and ends the loop
RECURSIVE forEachSendStopAtClosed(_, _, _)
forEachSendStopAtClosed(userClients, data, ob) ==
    IF userClients = <<>> THEN [outbox |-> ob, sent |-> FALSE]
    ELSE LET client == Head(userClients)
         IN  IF readyState[client.socket] # "OPEN"
             THEN [outbox |-> ob, sent |-> FALSE]
             ELSE LET rest == forEachSendStopAtClosed(Tail(userClients), data,
                                  [ob EXCEPT ![client.socket] = Append(@, data)])
                  IN  [outbox |-> rest.outbox, sent |-> TRUE]

RECURSIVE forEachSend(_, _, _)
\* userClients.forEach(client => { if OPEN then send }) over outbox ob
forEachSend(userClients, data, ob) ==
    IF userClients = <<>> THEN [outbox |-> ob, sent |-> FALSE]
    ELSE LET client == Head(userClients)
             isOpen == readyState[client.socket] = "OPEN"
             ob1 == IF isOpen
                    THEN [ob EXCEPT ![client.socket] = Append(@, data)]
                    ELSE ob
             rest == forEachSend(Tail(userClients), data, ob1)
         IN  [outbox |-> rest.outbox, sent |-> isOpen \/ rest.sent]

\* a variant that stops at the first client of the user (find instead of filter)
sendToFirstClient(userId, data, ob) ==
    LET userClients == SelectSeq(clients, LAMBDA client : client.userId = userId)
    IN  IF Len(userClients) = 0 THEN [outbox |-> ob, sent |-> FALSE]
        ELSE forEachSend(<<Head(userClients)>>, data, ob)

sendToUser(userId, data, ob) ==
    LET userClients == SelectSeq(clients, LAMBDA client : client.userId = userId)
    IN  IF Len(userClients) = 0 THEN [outbox |-> ob, sent |-> FALSE]
        ELSE forEachSend(userClients, data, ob)

\* upgrades, inbound frames and HTTP requests so far
eventCount ==
    Cardinality({s \in Sockets : readyState[s] # "NEW"}) + Len(frames)
        + Len(posts) + Len(fetches)

(***************************************************************************)
(* Initial state: the manager was constructed, no upgrade has happened.    *)
(***************************************************************************)
Init ==
    /\ readyState = [s \in Sockets |-> "NEW"]
    /\ token = [s \in Sockets |-> NoToken]
    /\ handlers = [s \in Sockets |-> FALSE]
    /\ closeCode = [s \in Sockets |-> 0]
    /\ clients = <<>>
    /\ outbox = [s \in Sockets |-> <<>>]
    /\ frames = <<>>
    /\ messages = <<>>
    /\ crashed = FALSE
    /\ posts = <<>>
    /\ fetches = <<>>
    /\ moduleSocket = 0
    /\ wsState = [w \in Calls |-> "NONE"]
    /\ calls = [c \in Calls |-> "idle"]
    /\ closedBefore = {}

\* a variant that pushes the stored messages of the user to a socket it registers
ConnectionReplay(s, t) ==
    /\ readyState[s] = "NEW"
    /\ \A r \in Sockets : r < s => readyState[r] # "NEW"
    /\ eventCount < MaxEvents
    /\ t.kind # "valid" => Cardinality({r \in Sockets : closeCode[r] # 0}) < MaxRejected
    /\ t.kind = "valid" => \A u \in Users : u < t.userId => \E r \in Sockets : userIdOf(r) = u
    /\ token' = [token EXCEPT ![s] = t]
    /\ IF t.kind = "absent" \/ jwtVerify(t).throws
       THEN /\ readyState' = [readyState EXCEPT ![s] = "CLOSING"]
            /\ closeCode' = [closeCode EXCEPT ![s] = 1008]
            /\ UNCHANGED <<clients, handlers, outbox>>
       ELSE /\ readyState' = [readyState EXCEPT ![s] = "OPEN"]
            /\ clients' = Append(clients, [userId |-> jwtVerify(t).userId, socket |-> s])
            /\ handlers' = [handlers EXCEPT ![s] = TRUE]
            /\ outbox' = [outbox EXCEPT ![s] =
                   LET rows == SelectSeq(messages,
                                   LAMBDA m : m.receiverId = jwtVerify(t).userId)
                   IN  [i \in 1..Len(rows) |-> MessageEvent(0, rows[i])]]
            /\ UNCHANGED closeCode
    /\ UNCHANGED <<frames, messages>>
    /\ ~crashed /\ UNCHANGED clientVars /\ UNCHANGED <<crashed, posts, fetches>>

(***************************************************************************)
(* wss.on('connection'): the upgrade of socket s with token t.  Socket     *)
(* objects are only identities, so they are handed out in index order.     *)
(***************************************************************************)
Connection(s, t) ==
    /\ readyState[s] = "NEW"
    /\ \A r \in Sockets : r < s => readyState[r] # "NEW"
    /\ eventCount < MaxEvents
    /\ t.kind # "valid" => Cardinality({r \in Sockets : closeCode[r] # 0}) < MaxRejected
    /\ t.kind = "valid" => \A u \in Users : u < t.userId => \E r \in Sockets : userIdOf(r) = u
    /\ token' = [token EXCEPT ![s] = t]
    /\ IF t.kind = "absent"
       THEN \* socket.close(1008, 'Authentication required'); return
            /\ readyState' = [readyState EXCEPT ![s] = "CLOSING"]
            /\ closeCode' = [closeCode EXCEPT ![s] = 1008]
            /\ UNCHANGED <<clients, handlers>>
       ELSE IF jwtVerify(t).throws
       THEN \* catch: socket.close(1008, 'Invalid authentication token')
            /\ readyState' = [readyState EXCEPT ![s] = "CLOSING"]
            /\ closeCode' = [closeCode EXCEPT ![s] = 1008]
            /\ UNCHANGED <<clients, handlers>>
       ELSE /\ readyState' = [readyState EXCEPT ![s] = "OPEN"]
            /\ clients' = Append(clients, [userId |-> jwtVerify(t).userId, socket |-> s])
            /\ handlers' = [handlers EXCEPT ![s] = TRUE]
            /\ UNCHANGED closeCode
    /\ UNCHANGED <<outbox, frames, messages>>
    /\ ~crashed /\ UNCHANGED clientVars /\ UNCHANGED <<crashed, posts, fetches>>

(***************************************************************************)
(* The peer starts the closing handshake (or the transport starts to go    *)
(* down): ws moves the socket to CLOSING; its 'close' event comes later.   *)
(***************************************************************************)
BeginClose(s) ==
    /\ readyState[s] = "OPEN"
    /\ readyState' = [readyState EXCEPT ![s] = "CLOSING"]
    /\ UNCHANGED <<token, handlers, closeCode, clients, outbox, frames, messages>>
    /\ ~crashed /\ UNCHANGED clientVars /\ UNCHANGED <<crashed, posts, fetches>>

\* a variant that throws the result of filter away
unregisterNothing(cs, userId, socket) == cs

\* a variant that matches on the user alone
unregisterUser(cs, userId, socket) ==
    SelectSeq(cs, LAMBDA client : client.userId # userId)

\* this.clients.filter(client => !(client.userId === userId && client.socket === socket))
unregister(cs, userId, socket) ==
    SelectSeq(cs, LAMBDA client : ~(client.userId = userId /\ client.socket = socket))

(***************************************************************************)
(* ws emits 'close' on socket s: the socket is CLOSED and, when the        *)
(* upgrade attached it, the close handler runs.                            *)
(***************************************************************************)
CloseEvent(s) ==
    /\ readyState[s] \in {"OPEN", "CLOSING"}
    /\ readyState' = [readyState EXCEPT ![s] = "CLOSED"]
    /\ clients' = IF handlers[s] THEN unregister(clients, userIdOf(s), s) ELSE clients
    /\ UNCHANGED <<token, handlers, closeCode, outbox, frames, messages>>
    /\ ~crashed /\ UNCHANGED clientVars /\ UNCHANGED <<crashed, posts, fetches>>

(***************************************************************************)
(* Inbound frames.  A frame is what the client wrote on the socket:        *)
(* text that JSON.parse rejects, the JSON text null, or a JSON object.      *)
(* Absent marks a field the object does not have.                          *)
(***************************************************************************)
Absent == "<absent>"
\* the same mark for a missing numeric field
AbsentId == -1

Frame(json, type, receiverId, content) ==
    [json |-> json, type |-> type, receiverId |-> receiverId, content |-> content]

\* a chat frame with one more field: a senderId of the client's choosing
SpoofedFrame(senderId, receiverId, content) ==
    Frame("object", "message", receiverId, content) @@ [senderId |-> senderId]

FrameInputs ==
    {Frame("invalid", Absent, AbsentId, Absent), Frame("null", Absent, AbsentId, Absent)}
    \cup {SpoofedFrame(2, 1, "hi")}
    \cup {Frame("object", "ping", AbsentId, Absent)}
    \cup {Frame("object", "message", AbsentId, "hi"), Frame("object", "message", 1, Absent),
          Frame("object", "message", 1, "")}
    \cup {Frame("object", "message", r, "hi") : r \in Users \cup {NoSuchUser}}

\* JavaScript truthiness of a frame field
truthyId(v) == v # AbsentId /\ v # 0
truthy(v) == v # Absent /\ v # ""

\* JSON.parse(message) throws a SyntaxError
parseThrows(d) == d.json = "invalid"

\* data.type throws a TypeError: JSON.parse returned null
typeThrows(d) == d.json = "null"

\* data.type === 'message' && data.receiverId && data.content
isChatFrame(d) ==
    d.json = "object" /\ d.type = "message" /\ truthyId(d.receiverId) /\ truthy(d.content)

\* the sockets that are in the registry and OPEN: the ones sendToUser writes to
liveSockets ==
    {s \in Sockets : readyState[s] = "OPEN"
                     /\ \E i \in 1..Len(clients) : clients[i].socket = s}

\* ghost record of the moment the handler of a frame made its pushes
Snapshot == [at |-> TRUE, readyState |-> readyState, clients |-> clients]
NoSnapshot == [at |-> FALSE, readyState |-> [s \in Sockets |-> "NEW"], clients |-> <<>>]

\* a variant that only logs
catchErrorSilent(userId, f, ob) == ob

\* catch (error) of the 'message' handler: sendToUser(userId, {type: 'error', ...})
catchError(userId, f, ob) == sendToUser(userId, ErrorEvent(f), ob).outbox

\* the record kept of frame f: where its handler stands and which way it went
FrameRecord(s, d, pc, path, snap) ==
    [socket |-> s, data |-> d, pc |-> pc, path |-> path,
     newMessage |-> NullMessage, snap |-> snap]

\* a variant that pushes the confirmation before the row is stored
onMessagePushFirst(s, d, f, ob) ==
    IF parseThrows(d) \/ typeThrows(d)
    THEN [outbox |-> catchError(userIdOf(s), f, ob),
          frame |-> FrameRecord(s, d, "done", "error", Snapshot)]
    ELSE IF isChatFrame(d)
    THEN [outbox |-> sendToUser(userIdOf(s), MessageSentEvent(f, 0), ob).outbox,
          frame |-> FrameRecord(s, d, "awaiting", "relay", NoSnapshot)]
    ELSE [outbox |-> ob,
          frame |-> FrameRecord(s, d, "done", "ignored", Snapshot)]

(***************************************************************************)
(* socket.on('message') up to its first await: parse, test, and either     *)
(* run the catch, call storage.createMessage, or fall out of the if,       *)
(* which has no else branch.                                               *)
(***************************************************************************)
onMessage(s, d, f, ob) ==
    IF parseThrows(d) \/ typeThrows(d)
    THEN [outbox |-> catchError(userIdOf(s), f, ob),
          frame |-> FrameRecord(s, d, "done", "error", Snapshot)]
    ELSE IF isChatFrame(d)
    THEN [outbox |-> ob,
          frame |-> FrameRecord(s, d, "awaiting", "relay", NoSnapshot)]
    ELSE [outbox |-> ob,
          frame |-> FrameRecord(s, d, "done", "ignored", Snapshot)]

\* a variant that closes a socket that sent something unparsable
OnMessageCloseOnParseError(s, d) ==
    /\ readyState[s] = "OPEN"
    /\ handlers[s]
    /\ Len(frames) < MaxFrames
    /\ eventCount < MaxEvents
    /\ LET r == onMessage(s, d, Len(frames) + 1, outbox)
       IN  /\ outbox' = r.outbox
           /\ frames' = Append(frames, r.frame)
    /\ IF parseThrows(d)
       THEN /\ readyState' = [readyState EXCEPT ![s] = "CLOSING"]
            /\ closeCode' = [closeCode EXCEPT ![s] = 1003]
       ELSE UNCHANGED <<readyState, closeCode>>
    /\ UNCHANGED <<token, handlers, clients, messages>>
    /\ ~crashed /\ UNCHANGED clientVars /\ UNCHANGED <<crashed, posts, fetches>>

\* the 'message' event of socket s with payload d
OnMessage(s, d) ==
    /\ readyState[s] = "OPEN"
    /\ handlers[s]
    /\ Len(frames) < MaxFrames
    /\ eventCount < MaxEvents
    /\ LET r == onMessage(s, d, Len(frames) + 1, outbox)
       IN  /\ outbox' = r.outbox
           /\ frames' = Append(frames, r.frame)
    /\ UNCHANGED <<readyState, token, handlers, closeCode, clients, messages>>
    /\ ~crashed /\ UNCHANGED clientVars /\ UNCHANGED <<crashed, posts, fetches>>

(***************************************************************************)
(* DatabaseStorage.createMessage: the insert commits in the database.      *)
(* id is serial, read defaults to false; sender_id and receiver_id         *)
(* reference users.id.                                                     *)
(***************************************************************************)
\* a variant that takes the sender from the frame when the frame names one
insertRowSenderFromFrame(f) ==
    [id |-> Len(messages) + 1,
     senderId |-> IF "senderId" \in DOMAIN frames[f].data
                  THEN frames[f].data.senderId
                  ELSE userIdOf(frames[f].socket),
     receiverId |-> frames[f].data.receiverId,
     content |-> frames[f].data.content,
     read |-> FALSE]

\* a variant whose rows start as read
insertRowRead(f) ==
    [id |-> Len(messages) + 1,
     senderId |-> userIdOf(frames[f].socket),
     receiverId |-> frames[f].data.receiverId,
     content |-> frames[f].data.content,
     read |-> TRUE]

insertRow(f) ==
    [id |-> Len(messages) + 1,
     senderId |-> userIdOf(frames[f].socket),
     receiverId |-> frames[f].data.receiverId,
     content |-> frames[f].data.content,
     read |-> FALSE]

\* a variant in which the inserts of the frames resolve in the order of arrival
CreateMessageResolvesInOrder(f) ==
    /\ f \in 1..Len(frames)
    /\ frames[f].pc = "awaiting"
    /\ \A e \in 1..(f - 1) : frames[e].pc # "awaiting"
    /\ frames[f].data.receiverId \in Users
    /\ messages' = Append(messages, insertRow(f))
    /\ frames' = [frames EXCEPT ![f].pc = "resolved", ![f].newMessage = insertRow(f)]
    /\ UNCHANGED <<readyState, token, handlers, closeCode, clients, outbox>>
    /\ ~crashed /\ UNCHANGED clientVars /\ UNCHANGED <<crashed, posts, fetches>>

CreateMessageResolves(f) ==
    /\ f \in 1..Len(frames)
    /\ frames[f].pc = "awaiting"
    /\ frames[f].data.receiverId \in Users
    /\ messages' = Append(messages, insertRow(f))
    /\ frames' = [frames EXCEPT ![f].pc = "resolved", ![f].newMessage = insertRow(f)]
    /\ UNCHANGED <<readyState, token, handlers, closeCode, clients, outbox>>
    /\ ~crashed /\ UNCHANGED clientVars /\ UNCHANGED <<crashed, posts, fetches>>

\* a variant that confirms to the sender only when the recipient was reached
pushAfterCreateIfDelivered(f, ob) ==
    LET d == frames[f].data
        newMessage == frames[f].newMessage
        r == sendToUser(d.receiverId, MessageEvent(f, newMessage), ob)
    IN  IF r.sent
        THEN sendToUser(userIdOf(frames[f].socket),
                        MessageSentEvent(f, newMessage.id), r.outbox).outbox
        ELSE r.outbox

\* a variant that gives the relay up when the socket the frame came on is not OPEN
pushAfterCreateUnlessSenderClosed(f, ob) ==
    LET d == frames[f].data
        userId == userIdOf(frames[f].socket)
        newMessage == frames[f].newMessage
        ob1 == sendToUser(d.receiverId, MessageEvent(f, newMessage), ob).outbox
    IN  IF readyState[frames[f].socket] # "OPEN" THEN ob
        ELSE sendToUser(userId, MessageSentEvent(f, newMessage.id), ob1).outbox

\* a variant that pushes the inbound payload instead of the stored row
pushAfterCreateInbound(f, ob) ==
    LET d == frames[f].data
        userId == userIdOf(frames[f].socket)
        newMessage == frames[f].newMessage
        inbound == [newMessage EXCEPT !.id = 0]
        ob1 == sendToUser(d.receiverId, MessageEvent(f, inbound), ob).outbox
    IN  sendToUser(userId, MessageSentEvent(f, newMessage.id), ob1).outbox

(***************************************************************************)
(* The handler resumes after the await: push to the recipient, then the    *)
(* confirmation to the sender.                                             *)
(***************************************************************************)
pushAfterCreate(f, ob) ==
    LET d == frames[f].data
        userId == userIdOf(frames[f].socket)
        newMessage == frames[f].newMessage
        ob1 == sendToUser(d.receiverId, MessageEvent(f, newMessage), ob).outbox
    IN  sendToUser(userId, MessageSentEvent(f, newMessage.id), ob1).outbox

ResumeAfterCreate(f) ==
    /\ f \in 1..Len(frames)
    /\ frames[f].pc = "resolved"
    /\ outbox' = pushAfterCreate(f, outbox)
    /\ frames' = [frames EXCEPT ![f].pc = "done", ![f].snap = Snapshot]
    /\ UNCHANGED <<readyState, token, handlers, closeCode, clients, messages>>
    /\ ~crashed /\ UNCHANGED clientVars /\ UNCHANGED <<crashed, posts, fetches>>

(***************************************************************************)
(* The insert fails (foreign key violation, database unreachable): nothing *)
(* is stored, the await throws and the catch runs                          *)
(* sendToUser(userId, {type: 'error', ...}).                               *)
(***************************************************************************)
CreateMessageRejects(f) ==
    /\ f \in 1..Len(frames)
    /\ frames[f].pc = "awaiting"
    /\ outbox' = catchError(userIdOf(frames[f].socket), f, outbox)
    /\ frames' = [frames EXCEPT ![f].pc = "done", ![f].path = "error", ![f].snap = Snapshot]
    /\ UNCHANGED <<readyState, token, handlers, closeCode, clients, messages>>
    /\ ~crashed /\ UNCHANGED clientVars /\ UNCHANGED <<crashed, posts, fetches>>

(***************************************************************************)
(* POST /api/invitations and the notification it starts.  The tables the   *)
(* route and the notification read: one job of one company, and the        *)
(* candidate profiles of the two users; a profile id is a serial of its    *)
(* own and is not the id of the profile's user.                            *)
(***************************************************************************)
Undefined == [id |-> 0]

Jobs == {[id |-> 1, companyId |-> 1]}
Companies == {[id |-> 1]}
CandidateProfiles == {[id |-> 1, userId |-> 2], [id |-> 3, userId |-> 1]}

getJob(id) ==
    IF \E j \in Jobs : j.id = id THEN CHOOSE j \in Jobs : j.id = id ELSE Undefined

getCompany(id) ==
    IF \E c \in Companies : c.id = id THEN CHOOSE c \in Companies : c.id = id
    ELSE Undefined

\* the lookup is by the userId column
getCandidateProfile(userId) ==
    IF \E p \in CandidateProfiles : p.userId = userId
    THEN CHOOSE p \in CandidateProfiles : p.userId = userId
    ELSE Undefined

NullInvitation == [id |-> 0, jobId |-> 0, candidateId |-> 0]

NewInvitationEvent(n, invitation, job, company) ==
    [type |-> "new_invitation", frame |-> 0, post |-> n,
     invitation |-> [id |-> invitation.id, jobId |-> invitation.jobId,
                     candidateId |-> invitation.candidateId,
                     job |-> [id |-> job.id, companyId |-> job.companyId,
                              company |-> company]]]

\* a request: does the body pass insertInvitationSchema, which job and candidate
\* profile it names, and whether the requester owns the company of the job
PostBody(valid, jobId, candidateId, owner) ==
    [valid |-> valid, jobId |-> jobId, candidateId |-> candidateId, owner |-> owner]

PostInputs ==
    {PostBody(FALSE, 0, 0, TRUE),
     PostBody(TRUE, 2, 1, TRUE),
     PostBody(TRUE, 1, 1, FALSE),
     PostBody(TRUE, 1, 2, TRUE)}
    \cup {PostBody(TRUE, 1, p.id, TRUE) : p \in CandidateProfiles}

\* the status the route answers with; 201 is the only one that made an invitation
postStatus(body) ==
    IF ~body.valid THEN 400
    ELSE IF getJob(body.jobId) = Undefined THEN 404
    ELSE IF getCompany(getJob(body.jobId).companyId) = Undefined \/ ~body.owner THEN 403
    ELSE IF ~\E p \in CandidateProfiles : p.id = body.candidateId THEN 500
    ELSE 201

PostRecord(body, status, invitation, pc) ==
    [body |-> body, status |-> status, invitation |-> invitation, pc |-> pc,
     result |-> FALSE, missing |-> "", caught |-> FALSE, snap |-> NoSnapshot]

\* a variant that answers only once the notification has resolved
PostInvitationAwaitNotify(body) ==
    /\ ~crashed /\ UNCHANGED clientVars
    /\ Len(posts) < MaxPosts
    /\ eventCount < MaxEvents
    /\ LET n == Len(posts) + 1
           status == postStatus(body)
       IN  posts' = Append(posts,
                IF status = 201
                THEN PostRecord(body, 0,
                         [id |-> n, jobId |-> body.jobId, candidateId |-> body.candidateId],
                         "getInvitation")
                ELSE PostRecord(body, status, NullInvitation, "none"))
    /\ UNCHANGED <<readyState, token, handlers, closeCode, clients, outbox, frames,
                   messages, crashed, fetches>>

(***************************************************************************)
(* The route up to its answer: parse, getJob, getCompany, createInvitation *)
(* and, for a created invitation, the call of sendInvitationNotification   *)
(* (which runs up to its first await and is not awaited) and the 201.      *)
(***************************************************************************)
PostInvitation(body) ==
    /\ ~crashed /\ UNCHANGED clientVars
    /\ Len(posts) < MaxPosts
    /\ eventCount < MaxEvents
    /\ LET n == Len(posts) + 1
           status == postStatus(body)
       IN  posts' = Append(posts,
                IF status = 201
                THEN PostRecord(body, 201,
                         [id |-> n, jobId |-> body.jobId, candidateId |-> body.candidateId],
                         "getInvitation")
                ELSE PostRecord(body, status, NullInvitation, "none"))
    /\ UNCHANGED <<readyState, token, handlers, closeCode, clients, outbox, frames,
                   messages, crashed, fetches>>

\* the reads of sendInvitationNotification, in order
NotifyReads == <<"getInvitation", "getJob", "getCompany", "getCandidateProfile">>

nextRead(pc) ==
    IF pc = "getInvitation" THEN "getJob"
    ELSE IF pc = "getJob" THEN "getCompany"
    ELSE "getCandidateProfile"

(***************************************************************************)
(* What the pending read of post p can settle with: it rejects, or it      *)
(* resolves with the row, or with undefined.  The invitation and its job   *)
(* can be gone by then (deleteJob, and the cascade on invitations); the    *)
(* company of a job cannot; the profile is looked up by userId.            *)
(***************************************************************************)
ReadOutcomes(p) ==
    IF p.pc \in {"getInvitation", "getJob"} THEN {"found", "undefined", "rejects"}
    ELSE IF p.pc = "getCompany" THEN {"found", "rejects"}
    ELSE IF getCandidateProfile(p.invitation.candidateId) = Undefined
         THEN {"undefined", "rejects"}
         ELSE {"found", "rejects"}

\* a variant without the four "if (!x) return false"
sendInvitationNotificationIgnoreMissing(n, p, o, ob) ==
    IF o = "rejects"
    THEN [post |-> [p EXCEPT !.pc = "done", !.caught = TRUE], outbox |-> ob]
    ELSE IF p.pc # "getCandidateProfile"
    THEN [post |-> [p EXCEPT !.pc = nextRead(p.pc),
                             !.missing = IF o = "undefined" THEN p.pc ELSE @],
          outbox |-> ob]
    ELSE LET job == getJob(p.invitation.jobId)
             r == sendToUser(IF o = "undefined" THEN p.invitation.candidateId
                             ELSE getCandidateProfile(p.invitation.candidateId).userId,
                             NewInvitationEvent(n, p.invitation, job,
                                                getCompany(job.companyId)), ob)
         IN  [post |-> [p EXCEPT !.pc = "done", !.result = r.sent, !.snap = Snapshot,
                                 !.missing = IF o = "undefined" THEN p.pc ELSE @],
              outbox |-> r.outbox]

\* a variant without the try/catch: the promise of the notification rejects
sendInvitationNotificationNoCatch(n, p, o, ob) ==
    IF o = "rejects"
    THEN [post |-> [p EXCEPT !.pc = "rejected"], outbox |-> ob]
    ELSE IF o = "undefined"
    THEN [post |-> [p EXCEPT !.pc = "done", !.missing = p.pc], outbox |-> ob]
    ELSE IF p.pc # "getCandidateProfile"
    THEN [post |-> [p EXCEPT !.pc = nextRead(p.pc)], outbox |-> ob]
    ELSE LET job == getJob(p.invitation.jobId)
             r == sendToUser(getCandidateProfile(p.invitation.candidateId).userId,
                             NewInvitationEvent(n, p.invitation, job,
                                                getCompany(job.companyId)), ob)
         IN  [post |-> [p EXCEPT !.pc = "done", !.result = r.sent, !.snap = Snapshot],
              outbox |-> r.outbox]

(***************************************************************************)
(* sendInvitationNotification from the await of p.pc on, when that read    *)
(* settles with o: the catch and each missing row end it with false, the   *)
(* last read is followed by sendToUser(candidateProfile.userId, ...).      *)
(***************************************************************************)
sendInvitationNotification(n, p, o, ob) ==
    IF o = "rejects"
    THEN [post |-> [p EXCEPT !.pc = "done", !.caught = TRUE], outbox |-> ob]
    ELSE IF o = "undefined"
    THEN [post |-> [p EXCEPT !.pc = "done", !.missing = p.pc], outbox |-> ob]
    ELSE IF p.pc # "getCandidateProfile"
    THEN [post |-> [p EXCEPT !.pc = nextRead(p.pc)], outbox |-> ob]
    ELSE LET job == getJob(p.invitation.jobId)
             r == sendToUser(getCandidateProfile(p.invitation.candidateId).userId,
                             NewInvitationEvent(n, p.invitation, job,
                                                getCompany(job.companyId)), ob)
         IN  [post |-> [p EXCEPT !.pc = "done", !.result = r.sent, !.snap = Snapshot],
              outbox |-> r.outbox]

\* the continuation of the notification of post n after its pending read
NotifyStep(n, o) ==
    /\ ~crashed /\ UNCHANGED clientVars
    /\ n \in 1..Len(posts)
    /\ posts[n].pc \in {NotifyReads[i] : i \in 1..Len(NotifyReads)}
    /\ o \in ReadOutcomes(posts[n])
    /\ LET r == sendInvitationNotification(n, posts[n], o, outbox)
       IN  /\ posts' = [posts EXCEPT ![n] = r.post]
           /\ outbox' = r.outbox
    /\ UNCHANGED <<readyState, token, handlers, closeCode, clients, frames, messages,
                   crashed, fetches>>

(***************************************************************************)
(* GET /api/messages/:userId: the conversation of the requester with       *)
(* otherUserId, newest first, at most limit rows; then one awaited         *)
(* markMessageAsRead per fetched row that the other user sent and that     *)
(* was fetched unread; then the answer, which is the rows as fetched.      *)
(***************************************************************************)
FetchLimit == 50

getMessagesBetweenUsers(user1Id, user2Id, limit) ==
    LET conv == SelectSeq(messages,
                    LAMBDA m : \/ m.senderId = user1Id /\ m.receiverId = user2Id
                               \/ m.senderId = user2Id /\ m.receiverId = user1Id)
        n == Len(conv)
        k == IF n < limit THEN n ELSE limit
    IN  [i \in 1..k |-> conv[n + 1 - i]]

\* a variant that marks every fetched unread row
unreadOfAnySender(list, otherUserId) ==
    LET rows == SelectSeq(list, LAMBDA message : ~message.read)
    IN  [i \in 1..Len(rows) |-> rows[i].id]

\* the ids the loop of the route will pass to markMessageAsRead, in order
unreadFromOther(list, otherUserId) ==
    LET rows == SelectSeq(list,
                    LAMBDA message : message.senderId = otherUserId /\ ~message.read)
    IN  [i \in 1..Len(rows) |-> rows[i].id]

markMessageAsRead(id) == [messages EXCEPT ![id].read = TRUE]

\* the request arrives and its query settles; marked and after are ghosts: the ids
\* this request has marked, and the frames whose handler had finished before it
GetMessages(requester, otherUserId, o) ==
    /\ ~crashed /\ UNCHANGED clientVars
    /\ Len(fetches) < MaxFetches
    /\ eventCount < MaxEvents
    /\ LET list == getMessagesBetweenUsers(requester, otherUserId, FetchLimit)
           todo == unreadFromOther(list, otherUserId)
       IN  fetches' = Append(fetches,
                [requester |-> requester, otherUserId |-> otherUserId,
                 list |-> IF o = "rejects" THEN <<>> ELSE list,
                 todo |-> IF o = "rejects" THEN <<>> ELSE todo,
                 status |-> IF o = "rejects" THEN 500
                            ELSE IF todo = <<>> THEN 200 ELSE 0,
                 marked |-> {},
                 after |-> {f \in 1..Len(frames) : frames[f].pc = "done"}])
    /\ UNCHANGED <<readyState, token, handlers, closeCode, clients, outbox, frames,
                   messages, crashed, posts>>

\* the pending markMessageAsRead of fetch k settles; after the last one the route answers
MarkMessageAsRead(k, o) ==
    /\ ~crashed /\ UNCHANGED clientVars
    /\ k \in 1..Len(fetches)
    /\ fetches[k].status = 0
    /\ IF o = "rejects"
       THEN /\ fetches' = [fetches EXCEPT ![k].status = 500]
            /\ UNCHANGED messages
       ELSE /\ messages' = markMessageAsRead(Head(fetches[k].todo))
            /\ fetches' = [fetches EXCEPT
                   ![k].todo = Tail(@),
                   ![k].marked = @ \cup {Head(fetches[k].todo)},
                   ![k].status = IF Tail(fetches[k].todo) = <<>> THEN 200 ELSE 0]
    /\ UNCHANGED <<readyState, token, handlers, closeCode, clients, outbox, frames,
                   crashed, posts>>

(***************************************************************************)
(* ws emits 'error' on socket s (a protocol violation of the peer, a       *)
(* transport error) after moving it to CLOSING.  The upgrade attaches      *)
(* 'message' and 'close' handlers only, and an 'error' event without a     *)
(* listener is thrown by the emitter: an uncaught exception, which ends    *)
(* the process.  Nothing unregisters the socket.                           *)
(***************************************************************************)
SocketError(s) ==
    /\ ~crashed /\ UNCHANGED clientVars
    /\ readyState[s] = "OPEN"
    /\ handlers[s]
    /\ readyState' = [readyState EXCEPT ![s] = "CLOSING"]
    /\ crashed' = TRUE
    /\ UNCHANGED <<token, handlers, closeCode, clients, outbox, frames, messages,
                   posts, fetches>>

Next ==
    \/ \E s \in Sockets, t \in Tokens : Connection(s, t)
    \/ \E s \in Sockets : BeginClose(s)
    \/ \E s \in Sockets : CloseEvent(s)
    \/ \E s \in Sockets, d \in FrameInputs : OnMessage(s, d)
    \/ \E f \in 1..MaxFrames : CreateMessageResolves(f)
    \/ \E f \in 1..MaxFrames : CreateMessageRejects(f)
    \/ \E f \in 1..MaxFrames : ResumeAfterCreate(f)
    \/ \E s \in Sockets : SocketError(s)
    \/ \E body \in PostInputs : PostInvitation(body)
    \/ \E n \in 1..MaxPosts, o \in {"found", "undefined", "rejects"} : NotifyStep(n, o)
    \/ \E requester \in Users, otherUserId \in Users \cup {NoSuchUser},
          o \in {"resolves", "rejects"} : GetMessages(requester, otherUserId, o)
    \/ \E k \in 1..MaxFetches, o \in {"resolves", "rejects"} : MarkMessageAsRead(k, o)

Spec == Init /\ [][Next]_vars

(***************************************************************************)
(* The client socket module (client/src/lib/websocket.ts) of one page.     *)
(* connectWebSocket tests the module's socket, awaits the token fetch, and *)
(* then creates a WebSocket and stores it in the module's socket.          *)
(***************************************************************************)
\* socket && (socket.readyState === OPEN || socket.readyState === CONNECTING)
openOrConnecting(w) == w # 0 /\ wsState[w] \in {"OPEN", "CONNECTING"}

\* a call of connectWebSocket up to its first await (or its early return)
connectWebSocket(c) ==
    /\ calls[c] = "idle"
    /\ \A b \in Calls : b < c => calls[b] # "idle"
    /\ calls' = [calls EXCEPT ![c] = IF openOrConnecting(moduleSocket) THEN "returned"
                                     ELSE "fetching"]
    /\ UNCHANGED <<moduleSocket, wsState, closedBefore>>
    /\ UNCHANGED serverVars

\* getWebSocketToken resolves: socket = new WebSocket(...), return socket
TokenResolves(c) ==
    /\ calls[c] = "fetching"
    /\ wsState' = [wsState EXCEPT ![c] = "CONNECTING"]
    /\ moduleSocket' = c
    /\ calls' = [calls EXCEPT ![c] = "returned"]
    /\ UNCHANGED closedBefore
    /\ UNCHANGED serverVars

\* getWebSocketToken rejects (response not ok, network error): the call throws
TokenRejects(c) ==
    /\ calls[c] = "fetching"
    /\ calls' = [calls EXCEPT ![c] = "threw"]
    /\ UNCHANGED <<moduleSocket, wsState, closedBefore>>
    /\ UNCHANGED serverVars

\* the browser finishes the handshake of WebSocket w
WsOpen(w) ==
    /\ wsState[w] = "CONNECTING"
    /\ wsState' = [wsState EXCEPT ![w] = "OPEN"]
    /\ UNCHANGED <<moduleSocket, calls, closedBefore>>
    /\ UNCHANGED serverVars

\* the handshake fails, or the connection ends: onerror only logs
WsClosed(w) ==
    /\ wsState[w] \in {"CONNECTING", "OPEN", "CLOSING"}
    /\ wsState' = [wsState EXCEPT ![w] = "CLOSED"]
    /\ UNCHANGED <<moduleSocket, calls, closedBefore>>
    /\ UNCHANGED serverVars

\* closeWebSocket(): close the module's socket if it is OPEN, then forget it
closeWebSocket ==
    /\ wsState' = IF moduleSocket # 0 /\ wsState[moduleSocket] = "OPEN"
                  THEN [wsState EXCEPT ![moduleSocket] = "CLOSING"]
                  ELSE wsState
    /\ moduleSocket' = 0
    /\ closedBefore' = {c \in Calls : calls[c] # "idle"}
    /\ UNCHANGED calls
    /\ UNCHANGED serverVars

ClientNext ==
    \/ \E c \in Calls : connectWebSocket(c)
    \/ \E c \in Calls : TokenResolves(c)
    \/ \E c \in Calls : TokenRejects(c)
    \/ \E w \in Calls : WsOpen(w)
    \/ \E w \in Calls : WsClosed(w)
    \/ closeWebSocket

ClientSpec == Init /\ [][ClientNext]_vars

(***************************************************************************)
(* Vocabulary of the properties.                                           *)
(***************************************************************************)
FrameIds == 1..Len(frames)

\* the user whose socket frame f arrived on
senderOf(f) == userIdOf(frames[f].socket)

\* createMessage returned a row for frame f
persisted(f) == frames[f].newMessage.id # 0

\* the handler of frame f went through createMessage and both pushes
relayed(f) == frames[f].pc = "done" /\ frames[f].path = "relay"

\* the sockets of user u that were in the registry and OPEN at snapshot snap
liveAt(snap, u) ==
    {s \in Sockets : /\ snap.readyState[s] = "OPEN"
                     /\ \E i \in 1..Len(snap.clients) :
                            snap.clients[i] = [userId |-> u, socket |-> s]}

\* the events of socket s that the handler of frame f produced
eventsOf(s, f) == SelectSeq(outbox[s], LAMBDA e : e.frame = f)

\* how many times event e was given to socket s
count(s, e) == Len(SelectSeq(outbox[s], LAMBDA x : x = e))

\* socket s was sent an event of type ty by the handler of frame f
got(s, f, ty) == \E i \in 1..Len(outbox[s]) : outbox[s][i].frame = f /\ outbox[s][i].type = ty

\* the stored row with the id of m is m, up to its read flag
stored(m) ==
    /\ m.id \in 1..Len(messages)
    /\ [messages[m.id] EXCEPT !.read = FALSE] = [m EXCEPT !.read = FALSE]

(***************************************************************************)
(* C1: a chat frame (type "message" with a receiverId and a content) makes *)
(* exactly one row, created with read = false, and no message or           *)
(* message_sent event of that frame is pushed before createMessage has     *)
(* returned its row.  (A rejected createMessage stores nothing: C10.)      *)
(***************************************************************************)
C1_PersistOnceBeforePush ==
    /\ Len(messages) = Cardinality({f \in FrameIds : persisted(f)})
    /\ \A f \in FrameIds :
          /\ persisted(f) =>
                /\ isChatFrame(frames[f].data)
                /\ stored(frames[f].newMessage)
                /\ frames[f].newMessage.read = FALSE
                /\ frames[f].newMessage.senderId = senderOf(f)
                /\ frames[f].newMessage.receiverId = frames[f].data.receiverId
                /\ frames[f].newMessage.content = frames[f].data.content
                /\ \A g \in FrameIds :
                      persisted(g) /\ g # f => frames[g].newMessage.id # frames[f].newMessage.id
          /\ relayed(f) => persisted(f)
          /\ \A s \in Sockets :
                got(s, f, "message") \/ got(s, f, "message_sent") => persisted(f)

\* a relay went all the way: row stored, recipient and sender were pushed to
C1_Witness ==
    \E f \in FrameIds, s, r \in Sockets :
        /\ relayed(f) /\ s # r
        /\ got(r, f, "message") /\ got(s, f, "message_sent")

(***************************************************************************)
(* C2 as stated: once createMessage has succeeded and the handler has      *)
(* finished, some socket of the sender holds the message_sent event with   *)
(* the id of the row.                                                      *)
(***************************************************************************)
C2_SenderAlwaysConfirmed ==
    \A f \in FrameIds :
        relayed(f) =>
            \E s \in Sockets :
                /\ userIdOf(s) = senderOf(f)
                /\ count(s, MessageSentEvent(f, frames[f].newMessage.id)) >= 1

(***************************************************************************)
(* C2 amended: once createMessage has succeeded, message_sent with the id  *)
(* of the row is pushed exactly once to every socket of the sender that is *)
(* in the registry and OPEN when the handler resumes, whether or not the   *)
(* recipient has a live socket, and to no other socket.                    *)
(***************************************************************************)
C2_LiveSenderSocketsConfirmed ==
    \A f \in FrameIds :
        relayed(f) =>
            \A s \in Sockets :
                IF s \in liveAt(frames[f].snap, senderOf(f))
                THEN count(s, MessageSentEvent(f, frames[f].newMessage.id)) = 1
                ELSE ~got(s, f, "message_sent")

\* the sender was confirmed while the recipient had no live socket
C2_Witness ==
    \E f \in FrameIds :
        /\ relayed(f)
        /\ frames[f].data.receiverId # senderOf(f)
        /\ liveAt(frames[f].snap, frames[f].data.receiverId) = {}
        /\ got(frames[f].socket, f, "message_sent")

(***************************************************************************)
(* C3: every socket of the recipient that is in the registry and OPEN when *)
(* the push step runs gets exactly one message event of the relay, and     *)
(* that event carries the row createMessage returned (same id, senderId,   *)
(* receiverId, content, read = false), so all of them are identical.       *)
(***************************************************************************)
C3_AllLiveRecipientSocketsGetMessage ==
    \A f \in FrameIds :
        relayed(f) =>
            \A s \in liveAt(frames[f].snap, frames[f].data.receiverId) :
                /\ Len(SelectSeq(outbox[s], LAMBDA e : e.frame = f /\ e.type = "message")) = 1
                /\ count(s, MessageEvent(f, frames[f].newMessage)) = 1
                /\ stored(frames[f].newMessage)
                /\ frames[f].newMessage.read = FALSE

\* a recipient with two live sockets, on neither of which the frame arrived
C3_Witness ==
    \E f \in FrameIds, s, r \in Sockets :
        /\ relayed(f) /\ s # r
        /\ frames[f].socket \notin {s, r}
        /\ {s, r} \subseteq liveAt(frames[f].snap, frames[f].data.receiverId)
        /\ got(s, f, "message") /\ got(r, f, "message")

(***************************************************************************)
(* C4: when the recipient has no socket that is in the registry and OPEN   *)
(* at the push step, the row is stored all the same, every live socket of  *)
(* the sender gets message_sent, and no socket of a user other than the    *)
(* sender gets any event of the relay.                                     *)
(***************************************************************************)
C4_OfflineRecipientOnlySenderPushed ==
    \A f \in FrameIds :
        relayed(f) /\ liveAt(frames[f].snap, frames[f].data.receiverId) = {} =>
            /\ stored(frames[f].newMessage)
            /\ \A s \in liveAt(frames[f].snap, senderOf(f)) : got(s, f, "message_sent")
            /\ \A s \in Sockets :
                  eventsOf(s, f) # <<>> =>
                      /\ userIdOf(s) = senderOf(f)
                      /\ eventsOf(s, f) = <<MessageSentEvent(f, frames[f].newMessage.id)>>

\* the recipient's only socket was still registered, but no longer OPEN
C4_Witness ==
    \E f \in FrameIds, r \in Sockets :
        /\ relayed(f)
        /\ userIdOf(r) = frames[f].data.receiverId
        /\ userIdOf(r) # senderOf(f)
        /\ frames[f].snap.readyState[r] = "CLOSING"
        /\ liveAt(frames[f].snap, frames[f].data.receiverId) = {}
        /\ got(frames[f].socket, f, "message_sent")

(***************************************************************************)
(* C5: a socket whose upgrade had no token, or a malformed, expired or     *)
(* tampered one, was closed with code 1008, is in the registry for no      *)
(* user, has no handlers (so no frame of it is ever processed) and was     *)
(* sent nothing.                                                           *)
(***************************************************************************)
C5_BadTokenRejected ==
    \A s \in Sockets :
        token[s].kind \in {"absent", "malformed", "expired", "tampered"} =>
            /\ closeCode[s] = 1008
            /\ readyState[s] \in {"CLOSING", "CLOSED"}
            /\ \A i \in 1..Len(clients) : clients[i].socket # s
            /\ ~handlers[s]
            /\ \A f \in FrameIds : frames[f].socket # s
            /\ outbox[s] = <<>>

\* an expired token of user 1 was turned away while a relay to user 1 was pushed
C5_Witness ==
    \E s \in Sockets, f \in FrameIds :
        /\ token[s].kind = "expired"
        /\ readyState[s] = "CLOSED"
        /\ relayed(f)
        /\ frames[f].data.receiverId = token[s].userId
        /\ frames[f].snap.readyState[s] # "NEW"

\* socket s has an entry in the registry
registered(s) == \E i \in 1..Len(clients) : clients[i].socket = s

(***************************************************************************)
(* C6 as stated: a socket is in the registry if and only if it is OPEN.    *)
(***************************************************************************)
C6_RegisteredIffOpen ==
    \A s \in Sockets : registered(s) <=> readyState[s] = "OPEN"

(***************************************************************************)
(* C6 amended: no socket is OPEN and absent from the registry and no       *)
(* socket is CLOSED (or not yet upgraded) and present in it; a socket      *)
(* whose closing has begun stays in the registry, under its own user and   *)
(* once, until its close event is handled.                                 *)
(***************************************************************************)
C6_OpenRegisteredClosedNot ==
    /\ \A s \in Sockets :
          /\ readyState[s] = "OPEN" => registered(s)
          /\ readyState[s] \in {"CLOSED", "NEW"} => ~registered(s)
    /\ \A i \in 1..Len(clients) :
          /\ clients[i].userId = userIdOf(clients[i].socket)
          /\ clients[i].userId \in Users
          /\ \A j \in 1..Len(clients) : clients[j].socket = clients[i].socket => j = i

\* a registered socket was closed and removed while another stays open and registered
C6_Witness ==
    \E s, r \in Sockets :
        /\ handlers[s] /\ readyState[s] = "CLOSED" /\ ~registered(s)
        /\ readyState[r] = "OPEN" /\ registered(r)

(***************************************************************************)
(* C7: the close event of a socket removes exactly the entry of that       *)
(* socket: every other entry, the other sockets of the same user among     *)
(* them, stays, in the same order; and a later relay to that user still    *)
(* pushes its message event to each of the user's sockets that remain      *)
(* registered and OPEN.                                                    *)
(***************************************************************************)
C7_UnregisterExactlyThatSocket ==
    [][/\ \A s \in Sockets :
            readyState[s] # "CLOSED" /\ readyState'[s] = "CLOSED" =>
                /\ clients' = SelectSeq(clients, LAMBDA c : c.socket # s)
                /\ handlers[s] => Len(clients') = Len(clients) - 1
       /\ \A f \in FrameIds :
            frames[f].pc = "resolved" /\ frames'[f].pc = "done" =>
                \A s, r \in Sockets :
                    /\ userIdOf(s) = frames[f].data.receiverId
                    /\ userIdOf(r) = userIdOf(s)
                    /\ readyState[r] = "CLOSED"
                    /\ readyState[s] = "OPEN"
                    => \E i \in 1..Len(outbox'[s]) :
                          /\ i > Len(outbox[s])
                          /\ outbox'[s][i] = MessageEvent(f, frames[f].newMessage)
      ]_vars

\* one socket of the recipient had closed before the push, the other got the message
C7_Witness ==
    \E f \in FrameIds, s, r \in Sockets :
        /\ relayed(f) /\ s # r
        /\ userIdOf(s) = frames[f].data.receiverId
        /\ userIdOf(r) = userIdOf(s)
        /\ frames[f].snap.readyState[r] = "CLOSED"
        /\ got(s, f, "message")
        /\ ~got(r, f, "message")

(***************************************************************************)
(* C8: a frame of type "message" without a (truthy) receiverId or content  *)
(* is dropped: nothing is stored, nothing goes to another user, and the    *)
(* socket it arrived on is sent an error event.                            *)
(***************************************************************************)
C8_IncompleteFrameAnswered ==
    \A f \in FrameIds :
        /\ frames[f].data.json = "object"
        /\ frames[f].data.type = "message"
        /\ ~isChatFrame(frames[f].data)
        => /\ frames[f].pc = "done"
           /\ ~persisted(f)
           /\ \A s \in Sockets : userIdOf(s) # senderOf(f) => eventsOf(s, f) = <<>>
           /\ got(frames[f].socket, f, "error")

(***************************************************************************)
(* C9: the handler of a frame that is not JSON stores nothing, sends an    *)
(* error event to the socket the frame arrived on, and leaves the socket   *)
(* open and in the registry; when a later chat frame of the same socket    *)
(* resumes after its insert, its row is stored and the socket, if still    *)
(* OPEN, gets the message_sent of that frame.                              *)
(***************************************************************************)
C9_NonJsonAnsweredAndConnectionKept ==
    [][/\ Len(frames') = Len(frames) + 1 /\ parseThrows(frames'[Len(frames')].data) =>
            LET f == Len(frames) + 1
                s == frames'[f].socket
            IN  /\ frames'[f].pc = "done" /\ frames'[f].newMessage = NullMessage
                /\ messages' = messages
                /\ outbox'[s] = Append(outbox[s], ErrorEvent(f))
                /\ readyState'[s] = "OPEN" /\ closeCode'[s] = 0
                /\ clients' = clients
                /\ \E i \in 1..Len(clients) : clients[i].socket = s
       /\ \A g \in FrameIds :
            /\ frames[g].pc = "resolved" /\ frames'[g].pc = "done"
            /\ \E f \in 1..(g - 1) :
                  frames[f].socket = frames[g].socket /\ parseThrows(frames[f].data)
            => /\ stored(frames[g].newMessage)'
               /\ readyState[frames[g].socket] = "OPEN" =>
                     outbox'[frames[g].socket][Len(outbox'[frames[g].socket])]
                         = MessageSentEvent(g, frames[g].newMessage.id)
      ]_vars

\* the same socket got the error for its first frame and the confirmation for its second
C9_Witness ==
    \E f, g \in FrameIds :
        /\ f < g /\ frames[f].socket = frames[g].socket
        /\ parseThrows(frames[f].data)
        /\ relayed(g)
        /\ readyState[frames[g].socket] = "OPEN" /\ registered(frames[g].socket)
        /\ got(frames[f].socket, f, "error")
        /\ got(frames[g].socket, g, "message_sent")

(***************************************************************************)
(* C10 as stated: when createMessage rejects, nothing is stored, no        *)
(* message and no message_sent event is pushed, and a socket of the sender *)
(* is sent an error event.                                                 *)
(***************************************************************************)
C10_RejectedRelayAnswered ==
    \A f \in FrameIds :
        isChatFrame(frames[f].data) /\ frames[f].pc = "done" /\ frames[f].path = "error" =>
            /\ ~persisted(f)
            /\ \A s \in Sockets : ~got(s, f, "message") /\ ~got(s, f, "message_sent")
            /\ \E s \in Sockets : userIdOf(s) = senderOf(f) /\ got(s, f, "error")

(***************************************************************************)
(* C10 amended: when createMessage rejects, nothing is stored, no message  *)
(* and no message_sent event is pushed, and one error event is sent to     *)
(* each socket of the sender that is in the registry and OPEN when the     *)
(* catch runs (to nobody when the sender has none left).                   *)
(***************************************************************************)
C10_RejectedRelayAborts ==
    /\ Len(messages) = Cardinality({f \in FrameIds : frames[f].path = "relay"
                                                     /\ frames[f].pc # "awaiting"})
    /\ \A f \in FrameIds :
        isChatFrame(frames[f].data) /\ frames[f].pc = "done" /\ frames[f].path = "error" =>
            /\ ~persisted(f)
            /\ \A s \in Sockets :
                  /\ ~got(s, f, "message") /\ ~got(s, f, "message_sent")
                  /\ IF s \in liveAt(frames[f].snap, senderOf(f))
                     THEN eventsOf(s, f) = <<ErrorEvent(f)>>
                     ELSE eventsOf(s, f) = <<>>

\* a relay to a user that does not exist was rejected and the sender was told
C10_Witness ==
    \E f \in FrameIds :
        /\ isChatFrame(frames[f].data) /\ frames[f].pc = "done" /\ frames[f].path = "error"
        /\ frames[f].data.receiverId = NoSuchUser
        /\ messages = <<>>
        /\ got(frames[f].socket, f, "error")

(***************************************************************************)
(* C11: a frame whose handler has finished, on a socket that was           *)
(* registered and OPEN when it finished, was answered on that socket with  *)
(* exactly one of message_sent (and then its row is stored) or error (and  *)
(* then nothing was stored): never with silence.                           *)
(***************************************************************************)
C11_EveryFrameAnswered ==
    \A f \in FrameIds :
        /\ frames[f].pc = "done"
        /\ frames[f].socket \in liveAt(frames[f].snap, senderOf(f))
        => LET s == frames[f].socket
           IN  \/ /\ eventsOf(s, f) = <<MessageSentEvent(f, frames[f].newMessage.id)>>
                     \/ /\ Len(eventsOf(s, f)) = 2
                        /\ got(s, f, "message") /\ got(s, f, "message_sent")
                  /\ persisted(f) /\ stored(frames[f].newMessage)
               \/ /\ eventsOf(s, f) = <<ErrorEvent(f)>>
                  /\ ~persisted(f)

(***************************************************************************)
(* C15: a socket holds a message event only of a relay whose push step ran *)
(* while the socket was in the registry (and OPEN); registering a socket   *)
(* sends it nothing, whatever is stored for its user.                      *)
(***************************************************************************)
C15_NoReplayOnRegister ==
    /\ \A s \in Sockets :
          \A i \in 1..Len(outbox[s]) :
              outbox[s][i].type = "message" =>
                  LET f == outbox[s][i].frame
                  IN  /\ f \in FrameIds /\ relayed(f)
                      /\ s \in liveAt(frames[f].snap, frames[f].data.receiverId)
    /\ \A s \in Sockets :
          (\A f \in FrameIds : frames[f].snap.at => frames[f].snap.readyState[s] = "NEW")
              => \A i \in 1..Len(outbox[s]) : outbox[s][i].type # "message"

\* a socket of the recipient registered after the push of a stored message and got nothing
C15_Witness ==
    \E f \in FrameIds, s \in Sockets :
        /\ relayed(f) /\ stored(frames[f].newMessage)
        /\ userIdOf(s) = frames[f].data.receiverId
        /\ frames[f].snap.readyState[s] = "NEW"
        /\ readyState[s] = "OPEN" /\ registered(s)
        /\ \A i \in 1..Len(outbox[s]) : outbox[s][i].type # "message"

(***************************************************************************)
(* C19: the token of GET /api/auth/ws-token is valid for strictly less     *)
(* time than the login token.                                              *)
(***************************************************************************)
C19_WsTokenShortLived ==
    \A s \in Sockets :
        token[s].kind = "valid" =>
            wsToken(token[s].userId).expiresIn < loginToken(token[s].userId).expiresIn

(***************************************************************************)
(* C20: a close or error event of a registered socket removes its entry    *)
(* and does not end the process: the process is never crashed, and no      *)
(* socket that has gone through such an event is still registered.         *)
(***************************************************************************)
C20_CloseOrErrorUnregisters ==
    /\ ~crashed
    /\ \A s \in Sockets : readyState[s] = "CLOSED" => ~registered(s)

\* the posts so far, and whether socket s holds the new_invitation event of post n
PostIds == 1..Len(posts)

hasInvitation(s, n) ==
    \E i \in 1..Len(outbox[s]) :
        outbox[s][i].type = "new_invitation" /\ outbox[s][i].post = n

\* the user the notification of post n looks up
targetOf(n) == getCandidateProfile(posts[n].invitation.candidateId).userId

(***************************************************************************)
(* C12: a notification that found its invitation, job, company or          *)
(* candidate profile missing has resolved to false, has pushed its event   *)
(* to no socket, and has not ended the process.                            *)
(***************************************************************************)
C12_MissingRecordResolvesFalse ==
    \A n \in PostIds :
        posts[n].missing # "" =>
            /\ posts[n].pc = "done"
            /\ posts[n].result = FALSE
            /\ ~posts[n].caught
            /\ \A s \in Sockets : ~hasInvitation(s, n)

\* the lookup of the candidate profile came back empty while sockets were open
C12_Witness ==
    \E n \in PostIds :
        /\ posts[n].pc = "done"
        /\ posts[n].missing = "getCandidateProfile"
        /\ posts[n].result = FALSE
        /\ liveSockets # {}

(***************************************************************************)
(* C13: in every state and for every user id, sendToUser answers true      *)
(* exactly if some registry entry of that user has an OPEN socket, and it  *)
(* appends the payload to exactly those sockets (to none when it answers   *)
(* false); the result of a notification that got as far as sendToUser is   *)
(* that answer.                                                            *)
(***************************************************************************)
C13_SentIffSomeOpenEntry ==
    /\ \A u \in Users \cup {NoSuchUser} :
          LET live == {s \in liveSockets : userIdOf(s) = u}
              r == sendToUser(u, ErrorEvent(0), outbox)
          IN  /\ r.sent = (live # {})
              /\ \A s \in Sockets :
                    r.outbox[s] = IF s \in live THEN Append(outbox[s], ErrorEvent(0))
                                  ELSE outbox[s]
    /\ \A n \in PostIds :
          posts[n].snap.at =>
              /\ posts[n].result = (liveAt(posts[n].snap, targetOf(n)) # {})
              /\ \A s \in Sockets :
                    hasInvitation(s, n) <=> s \in liveAt(posts[n].snap, targetOf(n))

\* a notification found only closing sockets in the entries of its user: false, nothing sent
C13_Witness ==
    \E n \in PostIds :
        /\ posts[n].snap.at
        /\ posts[n].result = FALSE
        /\ \E i \in 1..Len(posts[n].snap.clients) :
              /\ posts[n].snap.clients[i].userId = targetOf(n)
              /\ posts[n].snap.readyState[posts[n].snap.clients[i].socket] = "CLOSING"
        /\ \A s \in Sockets : ~hasInvitation(s, n)

(***************************************************************************)
(* C14: a request that created an invitation is answered 201 with that     *)
(* invitation in the step that starts the notification, before any of its  *)
(* reads has settled, and the answer is the same however the notification  *)
(* ends: delivered, not delivered, a row missing, or a read rejected.      *)
(***************************************************************************)
C14_AnswerDoesNotAwaitNotification ==
    \A n \in PostIds :
        posts[n].pc # "none" =>
            /\ posts[n].status = 201
            /\ posts[n].invitation =
                   [id |-> n, jobId |-> posts[n].body.jobId,
                    candidateId |-> posts[n].body.candidateId]

\* answered 201 while the notification is still at its first read
C14_Witness ==
    \E n \in PostIds :
        /\ posts[n].status = 201
        /\ posts[n].pc = "getInvitation"

\* the fetches so far
FetchIds == 1..Len(fetches)

\* fetch k asks for the conversation that the row m belongs to
sameConversation(k, m) ==
    \/ fetches[k].requester = m.receiverId /\ fetches[k].otherUserId = m.senderId
    \/ fetches[k].requester = m.senderId /\ fetches[k].otherUserId = m.receiverId

\* the row of id in the answer of fetch k, if there is one
rowsOf(k, id) == {fetches[k].list[i] : i \in {j \in 1..Len(fetches[k].list) :
                                                   fetches[k].list[j].id = id}}

(***************************************************************************)
(* C16 as stated: a message relayed while its recipient had no open socket *)
(* is, once a later fetch of the recipient for the sender's id has         *)
(* completed, in the answer with read = false, stored with read = true,    *)
(* and the fetch has modified no message sent by the requester.            *)
(***************************************************************************)
C16_OfflineMessageFetchedAndMarked ==
    \A f \in FrameIds, k \in FetchIds :
        /\ relayed(f)
        /\ liveAt(frames[f].snap, frames[f].data.receiverId) = {}
        /\ f \in fetches[k].after
        /\ fetches[k].requester = frames[f].data.receiverId
        /\ fetches[k].otherUserId = senderOf(f)
        /\ fetches[k].status # 0
        => /\ \E r \in rowsOf(k, frames[f].newMessage.id) : ~r.read
           /\ messages[frames[f].newMessage.id].read
           /\ \A id \in fetches[k].marked : messages[id].senderId # fetches[k].requester

(***************************************************************************)
(* C16, amended: a fetch marks only rows that the other user sent to the   *)
(* requester, and a row is read only if a fetch marked it.  A fetch that   *)
(* answered 200 returns every row of its conversation stored before it     *)
(* (up to the limit), as stored, with read = false unless an earlier fetch *)
(* had marked it, and by then every returned row of the other user is      *)
(* stored with read = true.                                                *)
(***************************************************************************)
C16_FetchMarksRowsOfOtherUser ==
    /\ \A k \in FetchIds :
          \A id \in fetches[k].marked :
              /\ id \in 1..Len(messages)
              /\ messages[id].senderId = fetches[k].otherUserId
              /\ messages[id].receiverId = fetches[k].requester
    /\ \A id \in 1..Len(messages) :
          messages[id].read => \E k \in FetchIds : id \in fetches[k].marked
    /\ \A k \in FetchIds :
          fetches[k].status = 200 =>
              /\ \A i \in 1..Len(fetches[k].list) :
                    LET r == fetches[k].list[i]
                    IN  /\ stored(r) /\ sameConversation(k, r)
                        /\ r.read => \E k2 \in 1..(k - 1) : r.id \in fetches[k2].marked
                        /\ r.senderId = fetches[k].otherUserId => messages[r.id].read
              /\ \A f \in fetches[k].after :
                    /\ persisted(f)
                    /\ sameConversation(k, frames[f].newMessage)
                    /\ Len(fetches[k].list) < FetchLimit
                    => rowsOf(k, frames[f].newMessage.id) # {}

\* the recipient was offline at the push, fetched later, got the row unread, and it is marked
C16_Witness ==
    \E f \in FrameIds, k \in FetchIds :
        /\ relayed(f)
        /\ liveAt(frames[f].snap, frames[f].data.receiverId) = {}
        /\ senderOf(f) # frames[f].data.receiverId
        /\ f \in fetches[k].after
        /\ fetches[k].requester = frames[f].data.receiverId
        /\ fetches[k].otherUserId = senderOf(f)
        /\ fetches[k].status = 200
        /\ \E r \in rowsOf(k, frames[f].newMessage.id) : ~r.read
        /\ messages[frames[f].newMessage.id].read

(***************************************************************************)
(* C17: the Message of a pushed message event and the row that a later     *)
(* fetch of the same conversation returns for it have the same id and the  *)
(* same content (and sender and receiver); the fetch returns it unless its *)
(* limit cut the list.                                                     *)
(***************************************************************************)
C17_PushedEqualsFetched ==
    \A s \in Sockets :
        \A j \in 1..Len(outbox[s]) :
            outbox[s][j].type = "message" =>
                LET m == outbox[s][j].message
                IN  \A k \in FetchIds :
                        /\ fetches[k].status = 200
                        /\ outbox[s][j].frame \in fetches[k].after
                        /\ sameConversation(k, m)
                        => /\ \A r \in rowsOf(k, m.id) :
                                 /\ r.content = m.content
                                 /\ r.senderId = m.senderId
                                 /\ r.receiverId = m.receiverId
                           /\ Len(fetches[k].list) < FetchLimit => rowsOf(k, m.id) # {}

\* a message was pushed to a socket of its recipient and fetched afterwards
C17_Witness ==
    \E s \in Sockets, k \in FetchIds :
        \E j \in 1..Len(outbox[s]) :
            /\ outbox[s][j].type = "message"
            /\ userIdOf(s) = outbox[s][j].message.receiverId
            /\ fetches[k].status = 200
            /\ outbox[s][j].frame \in fetches[k].after
            /\ sameConversation(k, outbox[s][j].message)
            /\ \E r \in rowsOf(k, outbox[s][j].message.id) :
                  r.content = outbox[s][j].message.content

(***************************************************************************)
(* C18: every step keeps the rows it found, leaves a read flag that was    *)
(* true at true, and adds rows only with read = false.                     *)
(***************************************************************************)
C18_ReadStartsFalseAndIsMonotonic ==
    [][/\ Len(messages') >= Len(messages)
       /\ \A i \in 1..Len(messages) : messages[i].read => messages'[i].read
       /\ \A i \in (Len(messages) + 1)..Len(messages') : ~messages'[i].read]_vars

\* a row was marked read, and a relay after it stored a new row, unread
C18_Witness ==
    \E i \in 1..Len(messages), j \in 1..Len(messages) :
        i < j /\ messages[i].read /\ ~messages[j].read

(***************************************************************************)
(* C21: the promise of a notification never rejects, and a notification    *)
(* one of whose reads rejected has resolved to false and has pushed its    *)
(* event to no socket.                                                     *)
(***************************************************************************)
C21_RejectedReadSwallowed ==
    \A n \in PostIds :
        /\ posts[n].pc \in {"none", "done"} \cup {NotifyReads[i] : i \in 1..Len(NotifyReads)}
        /\ posts[n].caught =>
              /\ posts[n].pc = "done"
              /\ posts[n].result = FALSE
              /\ posts[n].status = 201
              /\ \A s \in Sockets : ~hasInvitation(s, n)

\* a read rejected while the user the notification looks up had a live socket
C21_Witness ==
    \E n \in PostIds, s \in liveSockets :
        /\ posts[n].caught
        /\ posts[n].pc = "done"
        /\ userIdOf(s) = targetOf(n)

(***************************************************************************)
(* C22: a relay whose recipient has a registry entry with a socket that is *)
(* not OPEN at the push skips that socket and nothing else: every live     *)
(* socket of the recipient gets the message once, every live socket of the *)
(* sender gets message_sent once, and no socket gets an error event of     *)
(* the relay.                                                              *)
(***************************************************************************)
C22_FailedPushSwallowed ==
    \A f \in FrameIds :
        /\ relayed(f)
        /\ \E i \in 1..Len(frames[f].snap.clients) :
              /\ frames[f].snap.clients[i].userId = frames[f].data.receiverId
              /\ frames[f].snap.readyState[frames[f].snap.clients[i].socket] # "OPEN"
        => /\ \A s \in liveAt(frames[f].snap, frames[f].data.receiverId) :
                 count(s, MessageEvent(f, frames[f].newMessage)) = 1
           /\ \A s \in liveAt(frames[f].snap, senderOf(f)) :
                 count(s, MessageSentEvent(f, frames[f].newMessage.id)) = 1
           /\ \A s \in Sockets : ~got(s, f, "error")

\* the closing socket of the recipient was skipped, the live one after it was served
C22_Witness ==
    \E f \in FrameIds, s \in Sockets :
        /\ relayed(f)
        /\ s \in liveAt(frames[f].snap, frames[f].data.receiverId)
        /\ got(s, f, "message")
        /\ \E i, j \in 1..Len(frames[f].snap.clients) :
              /\ i < j
              /\ frames[f].snap.clients[i].userId = frames[f].data.receiverId
              /\ frames[f].snap.readyState[frames[f].snap.clients[i].socket] = "CLOSING"
              /\ frames[f].snap.clients[j].socket = s
        /\ \E r \in liveAt(frames[f].snap, senderOf(f)) : got(r, f, "message_sent")

(***************************************************************************)
(* C23: a chat frame whose socket stopped being OPEN during the await is   *)
(* not cancelled: its insert can still resolve and its handler can still   *)
(* resume, one row is stored for it, and every live socket of the          *)
(* recipient gets the message.                                             *)
(***************************************************************************)
C23_SenderCloseDoesNotCancel ==
    /\ \A f \in FrameIds :
          /\ ~crashed
          /\ readyState[frames[f].socket] # "OPEN"
          => /\ frames[f].pc = "awaiting" /\ frames[f].data.receiverId \in Users
                   => ENABLED CreateMessageResolves(f)
             /\ frames[f].pc = "resolved" => ENABLED ResumeAfterCreate(f)
    /\ \A f \in FrameIds :
          /\ relayed(f)
          /\ frames[f].snap.readyState[frames[f].socket] # "OPEN"
          => /\ stored(frames[f].newMessage)
             /\ \A g \in FrameIds :
                    persisted(g) /\ frames[g].newMessage.id = frames[f].newMessage.id => g = f
             /\ \A s \in liveAt(frames[f].snap, frames[f].data.receiverId) :
                    count(s, MessageEvent(f, frames[f].newMessage)) = 1

\* the sender's socket had closed before the push and a socket of the recipient got the message
C23_Witness ==
    \E f \in FrameIds, s \in Sockets :
        /\ relayed(f)
        /\ frames[f].snap.readyState[frames[f].socket] = "CLOSED"
        /\ s \in liveAt(frames[f].snap, frames[f].data.receiverId)
        /\ got(s, f, "message")
        /\ stored(frames[f].newMessage)

(***************************************************************************)
(* C24: nothing orders two relays of one sender.  While an earlier chat    *)
(* frame of a user is still waiting for its insert, the insert of a later  *)
(* frame of that user can resolve, and its handler can then resume and     *)
(* push, so the later frame can be stored and pushed first.                *)
(***************************************************************************)
C24_LaterFrameCanOvertake ==
    \A f \in FrameIds, g \in FrameIds :
        /\ ~crashed
        /\ f < g
        /\ senderOf(f) = senderOf(g)
        /\ frames[f].pc = "awaiting"
        => /\ frames[g].pc = "awaiting" /\ frames[g].data.receiverId \in Users
                 => ENABLED CreateMessageResolves(g)
           /\ frames[g].pc = "resolved" => ENABLED ResumeAfterCreate(g)

\* the later frame of the sender has the smaller id and reached the recipient before
\* the earlier frame was stored
C24_Witness ==
    \E f \in FrameIds, g \in FrameIds, s \in Sockets :
        /\ f < g
        /\ senderOf(f) = senderOf(g)
        /\ frames[f].data.receiverId = frames[g].data.receiverId
        /\ relayed(g) /\ got(s, g, "message")
        /\ userIdOf(s) = frames[g].data.receiverId
        /\ persisted(f)
        /\ frames[g].newMessage.id < frames[f].newMessage.id
        /\ ~got(s, f, "message")

(***************************************************************************)
(* C25: a step that changes the registry is an upgrade that succeeded,     *)
(* which appends the one entry of that socket, or the close or error event *)
(* of a socket, which removes the one entry of that socket; every upgrade  *)
(* that succeeds and every close or error event of a registered socket     *)
(* does so, and a step that processes a frame, resumes a relay, runs a     *)
(* notification or serves a request leaves the registry as it was.         *)
(***************************************************************************)
C25_RegistryChangesOnlyOnUpgradeCloseError ==
    [][/\ clients' # clients =>
             \/ \E s \in Sockets :
                   /\ readyState[s] = "NEW" /\ readyState'[s] = "OPEN"
                   /\ clients' = Append(clients, [userId |-> token'[s].userId, socket |-> s])
             \/ \E s \in Sockets :
                   /\ \/ readyState[s] # "CLOSED" /\ readyState'[s] = "CLOSED"
                      \/ readyState[s] = "OPEN" /\ readyState'[s] # "OPEN" /\ crashed'
                   /\ clients' = SelectSeq(clients, LAMBDA c : c.socket # s)
                   /\ Len(clients') = Len(clients) - 1
       /\ \A s \in Sockets :
             readyState[s] = "NEW" /\ readyState'[s] = "OPEN" =>
                 clients' = Append(clients, [userId |-> token'[s].userId, socket |-> s])
       \* the close event of a socket, and its error event (the step that sets crashed)
       /\ \A s \in Sockets :
             /\ handlers[s]
             /\ \/ readyState[s] # "CLOSED" /\ readyState'[s] = "CLOSED"
                \/ readyState[s] = "OPEN" /\ readyState'[s] # "OPEN" /\ crashed'
             => clients' = SelectSeq(clients, LAMBDA c : c.socket # s)
       /\ \/ frames' # frames
          \/ outbox' # outbox
          \/ messages' # messages
          \/ posts' # posts
          \/ fetches' # fetches
          => clients' = clients
      ]_vars

(***************************************************************************)
(* C26: an error event of a frame is on no socket but the one the frame    *)
(* arrived on.                                                             *)
(***************************************************************************)
C26_ErrorOnlyOnOwnSocket ==
    \A f \in FrameIds, s \in Sockets :
        got(s, f, "error") => s = frames[f].socket

\* the candidate profile an invitation refers to: the row with that id
profileById(id) == CHOOSE p \in CandidateProfiles : p.id = id

(***************************************************************************)
(* C28: a notification that found all its rows has pushed new_invitation   *)
(* to exactly the live sockets of the user who owns the candidate profile  *)
(* whose id is invitation.candidateId.                                     *)
(***************************************************************************)
C28_InvitationReachesInvitedCandidate ==
    \A n \in PostIds :
        posts[n].snap.at =>
            \A s \in Sockets :
                hasInvitation(s, n) <=>
                    s \in liveAt(posts[n].snap,
                                 profileById(posts[n].invitation.candidateId).userId)

(***************************************************************************)
(* C27: every stored row was made by a frame and carries as senderId the   *)
(* userId of the token of the socket that frame arrived on, whatever the   *)
(* frame says; so does the Message of every pushed message event.          *)
(***************************************************************************)
C27_SenderIsTokenUser ==
    /\ \A i \in 1..Len(messages) :
          \E f \in FrameIds :
              /\ persisted(f)
              /\ frames[f].newMessage.id = i
              /\ token[frames[f].socket].kind = "valid"
              /\ messages[i].senderId = token[frames[f].socket].userId
    /\ \A s \in Sockets :
          \A j \in 1..Len(outbox[s]) :
              outbox[s][j].type = "message" =>
                  /\ outbox[s][j].frame \in FrameIds
                  /\ outbox[s][j].message.senderId =
                         token[frames[outbox[s][j].frame].socket].userId

\* a frame that names another user as its sender was stored and pushed under the token's user
C27_Witness ==
    \E f \in FrameIds, s \in Sockets :
        /\ relayed(f)
        /\ "senderId" \in DOMAIN frames[f].data
        /\ frames[f].data.senderId # token[frames[f].socket].userId
        /\ messages[frames[f].newMessage.id].senderId = token[frames[f].socket].userId
        /\ got(s, f, "message")

\* the WebSockets of the page that are open or connecting
openSockets == {w \in Calls : wsState[w] \in {"OPEN", "CONNECTING"}}

(***************************************************************************)
(* C29: as long as closeWebSocket has not been called, at most one         *)
(* WebSocket of the module is open or connecting, and the module's socket  *)
(* is that one.                                                            *)
(***************************************************************************)
C29_AtMostOneClientSocket ==
    closedBefore = {} =>
        /\ Cardinality(openSockets) <= 1
        /\ \A w \in openSockets : moduleSocket = w

(***************************************************************************)
(* C30: no WebSocket of a connectWebSocket call that was made before a     *)
(* closeWebSocket() returned is open.                                      *)
(***************************************************************************)
C30_NothingOpenAfterClose ==
    \A c \in closedBefore : wsState[c] # "OPEN"

====
